---- MODULE Spec2Model ----
(***************************************************************************)
(* Gameplay core of tennis_rounds (src/src/player.rs): the swing and       *)
(* collision resolver, the jump/swing reaction and the rally outcome       *)
(* resolver, as a state machine.                                           *)
(*                                                                         *)
(* Numbers.  f32 values are kept in fixed point: lengths in px, speeds in  *)
(* px/s, durations in ms, unit vectors and 0..1 fractions in thousandths.  *)
(* Divisions round toward minus infinity.                                  *)
(***************************************************************************)
EXTENDS Integers, Sequences, FiniteSets, TLC

(***************************************************************************)
(* Program constants of player.rs.                                         *)
(***************************************************************************)
PLAYER_SIZE == 56
PLAYER_GRAVITY == -3150
PLAYER_JUMP_VEL_BASE == 400
PLAYER_JUMP_HEIGHT_MIN == 60
AIM_RING_RADIUS == 115
PLAYER_SWING_DISTANCE == 50
\* PlayerBundle::new: swing.duration_sec and swing.cooldown_sec, in ms
duration_sec == 150
cooldown_sec == 350
\* PlayerBundle::new: movement.speed, movement.charging_speed (px/s) and
\* movement.time_to_max_speed (ms)
player_speed == 550
player_charging_speed == 125
time_to_max_speed == 110
\* aim: the aim's target is clamped to x = clamp_x, |y| <= clamp_y, thousandths
clamp_x == 1000
clamp_y == 750
\* aim: the aim turns by at most 260 degrees a second, in hundredths of a degree
aim_turn_rate == 26000

(***************************************************************************)
(* Constants of the collaborators (ball.rs, lib.rs), whose values are not  *)
(* part of player.rs.                                                      *)
(***************************************************************************)
BALL_SIZE == 20
BALL_MIN_SPEED == 400
BALL_MAX_SPEED == 1600
BALL_MIN_HEIGHT == 100
BALL_MAX_HEIGHT == 300
BALL_MIN_DISTANCE == 150
BALL_GRAVITY == -900
TARGET_X_OFFSET == 200
\* CourtSettings.right
court_right == 640
\* CourtSettings.view
court_view == <<1280, 720>>
BASE_VIEW_WIDTH == 1280

(***************************************************************************)
(* Bounds of the model.                                                    *)
(***************************************************************************)
\* ball entities alive at once (a resolved ball fades out while its
\* replacement is already in play)
MaxBalls == 2
\* points a side can hold before the match is over
MaxPoints == 1
\* largest cumulative bounce count a notification carries
MaxBounceCount == 2

\* swings the players begin, and bounce notifications the ball collaborator
\* sends, in a run about the rally outcome
RallySwings == 1
RallyBounces == 3
\* the same, in a run about the swings
MatchSwings == 2
MatchBounces == 1
\* swings begun and movement passes made in a run about the movement
MoveSwings == 1
MovePasses == 2
\* changes of the movement input and of the net offset in such a run
MoveInputs == 2
\* how far the net collaborator moves the net to either side, in px
NetShift == 100
\* swings, passes of aim and changes of the aim input in a run of the aim
FrameSwings == 1
FramePasses == 1
FrameInputs == 2
LockSwings == 2
LockPasses == 1
LockInputs == 1
AimSwings == 1
AimPasses == 3
AimInputs == 2

\* charge strengths the input collaborator hands over in a rally, in thousandths
Strengths == {1000}
\* charge strengths and prior ball speeds a hit is computed from
HitStrengths == {0, 50, 100, 400, 700, 1000}
PriorSpeeds == {0, 100, 200, 500, 800, 1200, 1600}
\* bounce apex heights a ball comes in with
PriorHeights == {0, 150, 400}
\* scaled frame deltas, in ms
DeltaTimes == {300}
\* the same where the frames come short and long
VariedDeltaTimes == {50, 300}
\* scaled frame deltas of a movement pass, in ms: a frame, and a stall
MoveDeltaTimes == {50, 1000}
\* raw movement input of the two players, in thousandths: none, both toward
\* the net, both away from it, both along a diagonal
MoveDirs ==
    {[p \in {1, 2} |-> <<0, 0>>],
     [p \in {1, 2} |-> IF p = 1 THEN <<1000, 0>> ELSE <<-1000, 0>>],
     [p \in {1, 2} |-> IF p = 1 THEN <<-1000, 0>> ELSE <<1000, 0>>],
     [p \in {1, 2} |-> <<600, -800>>]}
\* scaled frame times of a pass of aim, in ms
AimDeltaTimes == {50, 1000}
\* the raw aim directions the input collaborator hands the two players, in
\* thousandths: none; straight back into the own court, at full, half and
\* double length; steeply and gently across the net; back and sideways
AimDirs ==
    {[p \in {1, 2} |-> <<0, 0>>],
     [p \in {1, 2} |-> IF p = 1 THEN <<-1000, 0>> ELSE <<1000, 0>>],
     [p \in {1, 2} |-> IF p = 1 THEN <<-500, 0>> ELSE <<2000, 0>>],
     [p \in {1, 2} |-> IF p = 1 THEN <<600, 800>> ELSE <<-600, -800>>],
     [p \in {1, 2} |-> IF p = 1 THEN <<943, -333>> ELSE <<-943, 333>>],
     [p \in {1, 2} |-> IF p = 1 THEN <<-1200, -1600>> ELSE <<300, 400>>]}
\* the offsets the net collaborator gives the net
NetOffsets == {-NetShift, 0, NetShift}

Players == {1, 2}
BallIds == 1..MaxBalls

(***************************************************************************)
(* Vectors and scalar helpers.                                             *)
(***************************************************************************)
Min(a, b) == IF a < b THEN a ELSE b
Max(a, b) == IF a > b THEN a ELSE b
Abs(a) == IF a < 0 THEN -a ELSE a
Clamp(v, lo, hi) == Max(lo, Min(v, hi))
Signum(a) == IF a < 0 THEN -1 ELSE 1

VAdd(u, v) == <<u[1] + v[1], u[2] + v[2]>>
VSub(u, v) == <<u[1] - v[1], u[2] - v[2]>>
VNeg(u) == <<-u[1], -u[2]>>
ZERO == <<0, 0>>

RECURSIVE SqrtSearch(_, _, _)
SqrtSearch(n, lo, hi) ==
    IF lo >= hi THEN lo
    ELSE LET mid == (lo + hi + 1) \div 2
         IN IF mid * mid <= n THEN SqrtSearch(n, mid, hi)
            ELSE SqrtSearch(n, lo, mid - 1)

\* f32::sqrt, rounded down
Sqrt(n) == SqrtSearch(n, 0, 46340)

\* Vec2::length, in the unit of v
Length(v) == Sqrt(v[1] * v[1] + v[2] * v[2])

\* Vec2::normalize of a px vector: a unit vector in thousandths
Normalize(v) ==
    LET len == Length(<<v[1] * 10, v[2] * 10>>)
    IN <<(v[1] * 10000) \div len, (v[2] * 10000) \div len>>

\* Vec2::normalize_or_zero
normalize_or_zero(v) == IF v = ZERO THEN ZERO ELSE Normalize(v)

(***************************************************************************)
(* Angles are in hundredths of a degree, sines and cosines in              *)
(* ten-thousandths, rounded toward zero.                                   *)
(***************************************************************************)
HalfTurn == 18000
QuarterTurn == 9000

\* an angle brought into (-180, 180] degrees
Wrap(a) ==
    IF a > HalfTurn THEN a - 2 * HalfTurn
    ELSE IF a <= -HalfTurn THEN a + 2 * HalfTurn
    ELSE a

CeilDiv(a, b) == (a + b - 1) \div b

\* f32::to_radians of an angle in [0, 90] degrees, in ten-thousandths,
\* rounded down and rounded up
RadiansDown(a) == (a * 17453) \div 10000
RadiansUp(a) == CeilDiv(a * 17454, 10000)

\* sin x and cos x for x in [0, pi/4], by their power series, neither more
\* than the true value
SinSeries(x) ==
    LET lo == (x * x) \div 10000
        hi == CeilDiv(x * x, 10000)
        u3 == 10000 - CeilDiv(hi, 42)
        u2 == 10000 - (lo * u3) \div 200000
        u1 == 10000 - CeilDiv(hi * u2, 60000)
    IN (x * u1) \div 10000

CosSeries(x) ==
    LET lo == (x * x) \div 10000
        hi == CeilDiv(x * x, 10000)
        v3 == 10000 - CeilDiv(hi, 30)
        v2 == 10000 - (lo * v3) \div 120000
    IN 10000 - CeilDiv(hi * v2, 20000)

\* the sine of an angle in [0, 90] degrees
SinQ(a) ==
    IF 2 * a <= QuarterTurn THEN SinSeries(RadiansDown(a))
    ELSE CosSeries(RadiansUp(QuarterTurn - a))

\* f32::sin and f32::cos of an angle in [-180, 180] degrees
Sin(a) ==
    LET s == Abs(a)
    IN (IF a < 0 THEN -1 ELSE 1) * SinQ(IF s > QuarterTurn THEN HalfTurn - s ELSE s)

Cos(a) ==
    LET s == Abs(a)
    IN IF s <= QuarterTurn THEN SinQ(QuarterTurn - s) ELSE -SinQ(s - QuarterTurn)

\* the least angle in lo..hi at which the unit vector (sin, cos) has come
\* round from +Y to the direction of (x, y), x >= 0 and y >= 0, of length len
RECURSIVE AngleSearch(_, _, _, _, _)
AngleSearch(x, y, len, lo, hi) ==
    IF lo >= hi THEN lo
    ELSE LET mid == (lo + hi) \div 2
         IN IF Cos(mid) * len <= y * 10000 /\ Sin(mid) * len >= x * 10000
            THEN AngleSearch(x, y, len, lo, mid)
            ELSE AngleSearch(x, y, len, mid + 1, hi)

\* Vec2::angle_between(self, Vec2::Y): acos(self.y / |self|), with the sign
\* of self.perp_dot(Y) = self.x; to the hundredth of a degree next toward
\* the quarter turn
AngleBetweenY(v) ==
    LET a == AngleSearch(Abs(v[1]) * 10, Abs(v[2]) * 10,
                         Length(<<v[1] * 10, v[2] * 10>>), 0, QuarterTurn)
    IN Signum(v[1]) * (IF v[2] >= 0 THEN a ELSE HalfTurn - a)

\* Quat::from_axis_angle(-Vec3::Z, angle), as a rotation about z
from_axis_angle_neg_z(angle) == Wrap(-angle)

\* Quat::angle_between of two rotations about z: the shorter way round
QuatAngleBetween(a, b) ==
    LET d == Abs(a - b) IN Min(d, 2 * HalfTurn - d)

\* RotateY, were the vector of that heading kept as long as the clamped
\* target is, |x| = 1, rather than of length 1
RotateY_as_clamped(z) ==
    LET TowardZero(x) == (IF x < 0 THEN -1 ELSE 1) * (Abs(x) \div 10)
        x == TowardZero(-Sin(z))
        y == TowardZero(Cos(z))
    IN IF x = 0 THEN <<x, y>>
       ELSE <<(IF x < 0 THEN -1 ELSE 1) * 1000, (y * 1000) \div Abs(x)>>

\* rotation * Vec3::Y, truncated to a Vec2 in thousandths: (-sin z, cos z)
RotateY(z) ==
    LET TowardZero(x) == (IF x < 0 THEN -1 ELSE 1) * (Abs(x) \div 10)
    IN <<TowardZero(-Sin(z)), TowardZero(Cos(z))>>

\* animation::inverse_lerp(a, b, t): where t lies between a and b, as a
\* fraction in thousandths normalised to 0..1
inverse_lerp(a, b, t) == Clamp(((t - a) * 1000) \div (b - a), 0, 1000)

\* Lerp::lerp(a, b, t) with t in thousandths: a + (b - a) * t
lerp(a, b, t) == a + ((b - a) * t) \div 1000


\* Option<T>: None and Some(x)
None == <<>>
Some(x) == <<x>>
IsSome(o) == o /= <<>>
Get(o) == o[1]

(***************************************************************************)
(* Player (player.rs) and the court regions of level.rs.                   *)
(***************************************************************************)
is_left_player_id(id) == id = 1

\* Player::is_left
is_left(p) == is_left_player_id(p)

\* Player::get_sign
get_sign(p) == IF is_left(p) THEN -1 ELSE 1

\* spawn_player: initial_dir, the unit vector across the net
initial_dir(p) == IF is_left(p) THEN <<1000, 0>> ELSE <<-1000, 0>>

\* spawn_player: the rotation the aim entity starts with, -90 or 90 degrees
initial_rotation(p) == IF is_left(p) THEN -QuarterTurn ELSE QuarterTurn

\* PlayerBundle::new: Player.side = -initial_dir.x.signum()
side(p) == -Signum(initial_dir(p)[1])

\* level::CourtRegion, and the queries player.rs makes of it
CourtRegions == {"TopLeft", "BottomLeft", "TopRight", "BottomRight", "OutOfBounds"}
LeftRegions == {"TopLeft", "BottomLeft"}
RightRegions == {"TopRight", "BottomRight"}
region_is_left(r) == r \in LeftRegions
region_is_top(r) == r \in {"TopLeft", "TopRight"}
region_is_bottom(r) == r \in {"BottomLeft", "BottomRight"}
is_out_of_bounds(r) == r = "OutOfBounds"
get_player_id(r) == IF region_is_left(r) THEN 1 ELSE 2

\* spawn_player: the player's spawn translation for the initial region
spawn_translation(id, region) ==
    LET x0 == BASE_VIEW_WIDTH \div 4
        x == IF id = 1 THEN -x0 ELSE x0
        left == x < 0
        is_serving == region_is_left(region) = left
        y == IF (is_serving /\ region_is_bottom(region))
                   \/ (~is_serving /\ region_is_top(region))
             THEN -150 ELSE 150
    IN <<x, y>>

(***************************************************************************)
(* PlayerSwing and its timer.                                              *)
(***************************************************************************)
\* Timer::from_seconds(d, false): a fresh one-shot timer
TimerFromSeconds(d) == [duration |-> d, finished |-> FALSE]

\* PlayerActionStatus<f32>; strength is carried by Charging and Active
ActionStatus(tag, strength) == [tag |-> tag, strength |-> strength]
Idle == ActionStatus("Idle", 0)
Charging(s) == ActionStatus("Charging", s)
Active(s) == ActionStatus("Active", s)
Cooldown == ActionStatus("Cooldown", 0)

\* start_cooldown, were it to restart the timer and leave the status alone
start_cooldown_timer_only(sw) ==
    [sw EXCEPT !.timer = TimerFromSeconds(cooldown_sec)]

\* PlayerSwing::start_cooldown
start_cooldown(sw) ==
    [sw EXCEPT !.status = Cooldown, !.timer = TimerFromSeconds(cooldown_sec)]

(***************************************************************************)
(* BallStatus (ball.rs), as player.rs matches on it.                       *)
(***************************************************************************)
BallStatus(tag, region, count, player) ==
    [tag |-> tag, region |-> region, count |-> count, player |-> player]
Serve(region, count, player) == BallStatus("Serve", region, count, player)
Fault(count, player) == BallStatus("Fault", "-", count, player)
Rally(player) == BallStatus("Rally", "-", 0, player)
Used == BallStatus("Used", "-", 0, 0)

\* ball::spawn_ball(region, fault_count, player_id): a ball waiting to be served
spawn_ball(region, fault_count, player_id) ==
    [status |-> Serve(region, fault_count, player_id),
     speed |-> 0,
     dir |-> ZERO,
     predicted_bounce_pos |-> ZERO,
     bounce |-> [height |-> 0, target_height |-> 0, gravity_mult |-> 1000],
     scale_out |-> FALSE]

VARIABLES
    player_swing,      \* PlayerSwing of each player
    player_movement,   \* PlayerMovement: raw_dir, last_non_zero_raw_dir, easing_time
    player_aim,        \* PlayerAim.dir of each player's aim entity
    aim_raw_dir,       \* PlayerAim.raw_dir of each player's aim entity
    aim_t,             \* the rotation about z of each aim entity's Transform
    aim_log,           \* what the last pass of aim worked out for each player
    player_anim,       \* PlayerAnimationData.animation
    player_t,          \* Transform.translation (x, y) of each player
    jump_t,            \* translation.y of each player's jump entity
    inactive,          \* players carrying the Inactive marker
    player_swinging,   \* Option<PlayerSwinging> of each player
    balls,             \* Option<ball> of each ball slot
    ball_hit_evts,     \* BallHitEvt sent by the last resolver pass
    score,             \* Score: points of the left and the right side
    serving_region,    \* ServingRegion
    net_offset,        \* NetOffset.current_offset
    bounce_log,        \* the bounce notification handled last, and what it led to
    swing_log,         \* the players whose swing the last resolver pass resolved
    sight_log,         \* what the last resolver pass was shown of each ball
    ran,               \* the systems that have run in the tick under way, in order
    budget,            \* swings and bounce notifications the run still has in store
    panicked           \* a system panicked: the app is gone

NoBounce ==
    [seen |-> FALSE, ball_e |-> 0, side |-> 0, bounce_count |-> 0,
     found |-> FALSE, status |-> Used, region |-> "-", resolved |-> FALSE,
     losing_player |-> None, fault_count |-> 0, awarded |-> None,
     swap_serve |-> FALSE, fade_trail |-> FALSE, spawned |-> None]

NoAim == [p \in Players |-> None]

NoSights == [b \in BallIds |-> None]

vars ==
    <<player_swing, player_movement, player_aim, aim_raw_dir, aim_t, player_anim, player_t, jump_t,
      inactive, player_swinging, balls, ball_hit_evts, score, serving_region,
      net_offset, bounce_log, swing_log, sight_log, aim_log, ran, budget, panicked>>

player_vars ==
    <<player_swing, player_movement, player_aim, aim_raw_dir, aim_t, player_anim, player_t, jump_t,
      inactive, player_swinging>>

rally_vars == <<score, serving_region>>

\* The notification channels and what is kept of the last pass are of one
\* tick: a system of a later tick finds them empty.
NewTick ==
    /\ ball_hit_evts' = <<>>
    /\ swing_log' = {}
    /\ sight_log' = NoSights
    /\ bounce_log' = NoBounce
    /\ aim_log' = NoAim

LiveBalls == {b \in BallIds : IsSome(balls[b])}
FreeSlots == BallIds \ LiveBalls


\* setup, spawn_player and PlayerBundle::new, for the initial region r
InitWith(r, in_store) ==
    /\ player_swing =
           [p \in Players |->
               [status |-> Idle, duration_sec |-> duration_sec,
                cooldown_sec |-> cooldown_sec, timer |-> TimerFromSeconds(0)]]
    /\ player_movement =
           [p \in Players |->
               [raw_dir |-> ZERO, last_non_zero_raw_dir |-> ZERO, easing_time |-> 0]]
    /\ player_aim = [p \in Players |-> initial_dir(p)]
    /\ aim_raw_dir = [p \in Players |-> ZERO]
    /\ aim_t = [p \in Players |-> initial_rotation(p)]
    /\ aim_log = NoAim
    /\ player_anim = [p \in Players |-> "Idle"]
    /\ player_t = [p \in Players |-> spawn_translation(p, r)]
    /\ jump_t = [p \in Players |-> 0]
    /\ inactive = {}
    /\ player_swinging = [p \in Players |-> None]
    /\ balls = [b \in BallIds |->
                   IF b = 1 THEN Some(spawn_ball(r, 0, get_player_id(r))) ELSE None]
    /\ ball_hit_evts = <<>>
    /\ score = [left |-> 0, right |-> 0]
    /\ serving_region = r
    /\ net_offset = 0
    /\ bounce_log = NoBounce
    /\ swing_log = {}
    /\ sight_log = NoSights
    /\ ran = <<>>
    /\ budget = in_store
    /\ panicked = FALSE

InitFor(r, swings, bounces, moves, inputs) ==
    InitWith(r, [swings |-> swings, bounces |-> bounces, moves |-> moves,
                 inputs |-> inputs, aims |-> 0, placing |-> "reach", delta |-> "steady"])

\* the regions the first serve is taken from
InitRegions == {"BottomLeft", "TopRight"}

Init == \E r \in InitRegions : InitFor(r, RallySwings, RallyBounces, 0, 0)

InitSwing == InitFor("BottomLeft", MatchSwings, MatchBounces, 0, 0)

InitMove == InitFor("BottomLeft", MoveSwings, 0, MovePasses, MoveInputs)

\* the systems of the players over a frame, the balls about the rim of
\* the contact radius
InitFrame ==
    InitWith("BottomLeft", [swings |-> FrameSwings, bounces |-> 0,
                            moves |-> FramePasses, inputs |-> FrameInputs,
                            aims |-> FramePasses, placing |-> "rim", delta |-> "steady"])

\* the same systems with both players swinging
InitLock ==
    InitWith("BottomLeft", [swings |-> LockSwings, bounces |-> 0,
                            moves |-> LockPasses, inputs |-> LockInputs,
                            aims |-> LockPasses, placing |-> "reach", delta |-> "steady"])

InitAim ==
    InitWith("BottomLeft", [swings |-> AimSwings, bounces |-> 0, moves |-> 0,
                            inputs |-> AimInputs, aims |-> AimPasses,
                            placing |-> "reach", delta |-> "steady"])

\* A rally under way: the ball, last hit by player 2, comes in at some speed
\* while player 1 has released a swing of some charge strength.
InitHitAt(delta) ==
    /\ \E strength \in HitStrengths :
          player_swing =
              [p \in Players |->
                  [status |-> IF p = 1 THEN Active(strength) ELSE Idle,
                   duration_sec |-> duration_sec,
                   cooldown_sec |-> cooldown_sec,
                   timer |-> TimerFromSeconds(IF p = 1 THEN duration_sec ELSE 0)]]
    /\ player_movement =
           [p \in Players |->
               [raw_dir |-> ZERO, last_non_zero_raw_dir |-> ZERO, easing_time |-> 0]]
    /\ player_aim = [p \in Players |-> initial_dir(p)]
    /\ aim_raw_dir = [p \in Players |-> ZERO]
    /\ aim_t = [p \in Players |-> initial_rotation(p)]
    /\ aim_log = NoAim
    /\ player_anim = [p \in Players |-> "Idle"]
    /\ player_t = [p \in Players |-> spawn_translation(p, "BottomLeft")]
    /\ jump_t = [p \in Players |-> 0]
    /\ inactive = {}
    /\ player_swinging = [p \in Players |-> None]
    /\ \E speed \in PriorSpeeds, height \in PriorHeights :
          balls = [b \in BallIds |->
                      IF b = 1
                      THEN Some([status |-> Rally(2), speed |-> speed,
                                 dir |-> initial_dir(2),
                                 predicted_bounce_pos |-> ZERO,
                                 bounce |-> [height |-> height,
                                             target_height |-> height,
                                             gravity_mult |-> 1000],
                                 scale_out |-> FALSE])
                      ELSE None]
    /\ ball_hit_evts = <<>>
    /\ score = [left |-> 0, right |-> 0]
    /\ serving_region = "BottomLeft"
    /\ net_offset = 0
    /\ bounce_log = NoBounce
    /\ swing_log = {}
    /\ sight_log = NoSights
    /\ ran = <<>>
    /\ budget = [swings |-> 0, bounces |-> 0, moves |-> 0, inputs |-> 0,
                 aims |-> 0, placing |-> "reach", delta |-> delta]
    /\ panicked = FALSE

InitHit == InitHitAt("steady")

\* the same with the frames of the flight of uneven length
InitFlight == InitHitAt("varied")

(***************************************************************************)
(* What a frame shows the resolver of a ball: the ball-physics             *)
(* collaborator has positioned the ball and its bounce indicator for this  *)
(* frame.  pos is the ball's translation, bounce_global the bounce         *)
(* entity's global translation, bounce_y its local height, and             *)
(* bounce_found whether ball.bounce_e still resolves to a bounce record.   *)
(***************************************************************************)
Sighting(pos, bounce_global, bounce_y, found) ==
    [pos |-> pos, bounce_global |-> bounce_global, bounce_y |-> bounce_y,
     bounce_found |-> found]

\* x direction from the player toward the net
Toward(p) == -get_sign(p)

FarAway == <<0, 5000>>

\* the places the ball collaborator is taken to put a ball: in reach of a
\* player, past the optimal swing distance on the net side, or far from both
InReachOf(p) ==
    LET at == VAdd(player_t[p], <<Toward(p) * 120, 0>>)
    IN Sighting(at, at, 0, TRUE)

ReachSightings ==
    {InReachOf(p) : p \in Players} \cup {Sighting(FarAway, FarAway, 0, TRUE)}

\* the place d px from player p on the net side
AtDistance(p, d) == VAdd(player_t[p], <<Toward(p) * d, 0>>)

\* the contact radius: AIM_RING_RADIUS + BALL_SIZE * 0.65
ContactRadius == AIM_RING_RADIUS + (BALL_SIZE * 65) \div 100

\* the places about the rim of player p's contact radius: the ball on the
\* rim, the ball just inside it, the ball far off with its bounce indicator
\* just inside, and the ball just inside with its bounce record lost
RimOf(p) ==
    LET on_rim == AtDistance(p, ContactRadius)
        inside == AtDistance(p, ContactRadius - 1)
        far == AtDistance(p, BASE_VIEW_WIDTH)
    IN {Sighting(on_rim, on_rim, 0, TRUE),
        Sighting(inside, inside, 0, TRUE),
        Sighting(far, inside, BALL_MAX_HEIGHT, TRUE),
        Sighting(inside, inside, 0, FALSE)}

RimSightings ==
    UNION {RimOf(p) : p \in Players} \cup {Sighting(FarAway, FarAway, 0, TRUE)}

\* the places this run's ball collaborator puts a ball
Sightings == IF budget.placing = "rim" THEN RimSightings ELSE ReachSightings

(***************************************************************************)
(* handle_ball_swing_collisions                                            *)
(***************************************************************************)
\* InContact, were a ball on the rim of the radius in contact too
InContact_on_rim_too(p_t, sight) ==
    Min(Length(VSub(sight.pos, p_t)), Length(VSub(sight.bounce_global, p_t)))
        <= ContactRadius

\* ball_dist.min(ball_bounce_dist) < (AIM_RING_RADIUS + BALL_SIZE * 0.65)
InContact(p_t, sight) ==
    Min(Length(VSub(sight.pos, p_t)), Length(VSub(sight.bounce_global, p_t)))
        < ContactRadius

\* the PlayerSwinging inserted on a hit
HitSwinging(p_t, sight) ==
    LET ball_delta == VSub(sight.pos, p_t)
        ball_dist == Length(ball_delta)
        dir_to_ball == Normalize(ball_delta)
        jump_height == Max(sight.bounce_y, PLAYER_JUMP_HEIGHT_MIN)
        \* in ms
        jump_dur ==
            (jump_height * 1000 * 1000)
                \div (PLAYER_JUMP_VEL_BASE
                          * (inverse_lerp(PLAYER_JUMP_HEIGHT_MIN, 300, jump_height) + 1000))
        jump_vel == (jump_dur * (-PLAYER_GRAVITY)) \div 1000
        \* (ball_dist - PLAYER_SWING_DISTANCE) > 0., decided on the squares
        invert_jump ==
            ball_delta[1] * ball_delta[1] + ball_delta[2] * ball_delta[2]
                > PLAYER_SWING_DISTANCE * PLAYER_SWING_DISTANCE
        dir == IF invert_jump THEN dir_to_ball ELSE VNeg(dir_to_ball)
        jump_dist ==
            IF invert_jump THEN PLAYER_SWING_DISTANCE * 2
            ELSE Abs(ball_dist - PLAYER_SWING_DISTANCE) * 2
    IN [movement_speed |-> (jump_dist * 1000) \div (jump_dur * 2),
        movement_dir |-> dir,
        initial_jump_vel |-> jump_vel,
        current_jump_vel |-> jump_vel]

\* MissSwinging, were the dash always along the aim
MissSwinging_along_aim(movement, aim_dir) ==
    [movement_speed |->
         (PLAYER_SWING_DISTANCE * 2 * PLAYER_JUMP_VEL_BASE)
             \div (PLAYER_JUMP_HEIGHT_MIN * 2),
     movement_dir |-> aim_dir,
     initial_jump_vel |-> PLAYER_JUMP_VEL_BASE,
     current_jump_vel |-> PLAYER_JUMP_VEL_BASE]

\* the PlayerSwinging inserted on a miss
MissSwinging(movement, aim_dir) ==
    LET dist == PLAYER_SWING_DISTANCE * 2
    IN [movement_speed |->
            (dist * PLAYER_JUMP_VEL_BASE) \div (PLAYER_JUMP_HEIGHT_MIN * 2),
        movement_dir |->
            IF movement.raw_dir /= ZERO THEN Normalize(movement.raw_dir) ELSE aim_dir,
        initial_jump_vel |-> PLAYER_JUMP_VEL_BASE,
        current_jump_vel |-> PLAYER_JUMP_VEL_BASE]

\* HitSpeed, were the sum not capped by .min(BALL_MAX_SPEED)
HitSpeed_uncapped(strength, speed) ==
    lerp(BALL_MIN_SPEED, BALL_MAX_SPEED, inverse_lerp(100, 1000, strength))
        + (speed * 125 * inverse_lerp(BALL_MIN_SPEED \div 2, BALL_MIN_SPEED * 2, speed))
              \div 1000000

\* ball.speed after a hit of the given charge strength
HitSpeed(strength, speed) ==
    LET strength_t == inverse_lerp(100, 1000, strength)
        \* carry over some of the previous velocity
        carry_over_vel ==
            (speed * 125 * inverse_lerp(BALL_MIN_SPEED \div 2, BALL_MIN_SPEED * 2, speed))
                \div 1000000
    IN Min(lerp(BALL_MIN_SPEED, BALL_MAX_SPEED, strength_t) + carry_over_vel,
           BALL_MAX_SPEED)

\* HitStatus, were every arm of the match the `_ => {}` arm
HitStatus_untouched(status, id) == status

\* HitStatus, were every ball hit put in Rally by the hitter
HitStatus_revives(status, id) == Rally(id)

\* the match on *status after a hit by player id
HitStatus(status, id) ==
    IF status.tag = "Serve" /\ status.player /= id THEN Rally(id)
    ELSE IF status.tag = "Rally" THEN Rally(id)
    ELSE status

\* -final_grav * time_apex before it is clamped: the apex the new trajectory
\* asks for, from the ball's place, its new direction and speed and the apex
\* height it came in with
ApexAsked(id, pos, dir, speed, height) ==
    LET overall_strength == inverse_lerp(BALL_MIN_SPEED, BALL_MAX_SPEED, speed)
        \* angle.cos(), angle being the arc from the forward axis to ball.dir
        angle_cos == -get_sign(id) * dir[1]
        height_mult == Min(inverse_lerp(0, BALL_MAX_HEIGHT, height), 1000)
        target_offset == lerp(TARGET_X_OFFSET, TARGET_X_OFFSET \div 2, height_mult)
        min_x == IF is_left(id) THEN net_offset + target_offset
                 ELSE net_offset - target_offset
        min_a == Abs(min_x - pos[1])
        min_dist == Max((min_a * 1000) \div angle_cos, BALL_MIN_DISTANCE)
        \* inverse_lerp(court.right, 0., |x - net|)
        net_t == Clamp(((court_right - Abs(pos[1] - net_offset)) * 1000) \div court_right,
                       0, 1000)
        dist_t == Clamp(overall_strength - height_mult \div 4 - net_t \div 4, 0, 1000)
        dist == lerp(min_dist, (court_right * 225) \div 100, dist_t)
        \* in ms
        time == (dist * 1000) \div speed
        time_apex == time \div 2
        gravity_mult == overall_strength + 1000
        final_grav == (BALL_GRAVITY * gravity_mult) \div 1000
    IN ((-final_grav) * time_apex) \div 1000

\* HitBounce, were the apex written as asked, without the clamp
HitBounce_unclamped(id, pos, dir, speed, height) ==
    [height |-> ApexAsked(id, pos, dir, speed, height),
     target_height |-> ApexAsked(id, pos, dir, speed, height),
     gravity_mult |-> inverse_lerp(BALL_MIN_SPEED, BALL_MAX_SPEED, speed) + 1000]

\* the BallBounce a hit writes: gravity_mult, height, target_height
HitBounce(id, pos, dir, speed, height) ==
    LET apex == Clamp(ApexAsked(id, pos, dir, speed, height),
                      BALL_MIN_HEIGHT, BALL_MAX_HEIGHT)
    IN [height |-> apex,
        target_height |-> apex,
        gravity_mult |-> inverse_lerp(BALL_MIN_SPEED, BALL_MAX_SPEED, speed) + 1000]

\* ball.predicted_bounce_pos: the ball's place plus dir * final_dist
PredictedBouncePos(pos, dir, speed, bounce) ==
    LET final_grav == (BALL_GRAVITY * bounce.gravity_mult) \div 1000
        \* in ms
        final_time == (bounce.height * 1000) \div (-final_grav)
        final_dist == (final_time * speed * 2) \div 1000
    IN <<pos[1] + (dir[1] * final_dist) \div 1000,
         pos[2] + (dir[2] * final_dist) \div 1000>>

\* the ball after a hit: direction, speed, bounce, predicted landing and status
HitBall(ball, id, aim_dir, strength, pos) ==
    LET dir == Normalize(aim_dir)
        speed == HitSpeed(strength, ball.speed)
        bounce == HitBounce(id, pos, dir, speed, ball.bounce.height)
    IN [ball EXCEPT !.dir = dir,
                    !.speed = speed,
                    !.bounce = bounce,
                    !.predicted_bounce_pos = PredictedBouncePos(pos, dir, speed, bounce),
                    !.status = HitStatus(ball.status, id)]

\* The loop over ball_q of one player, in the query's order.  w is the
\* world as the pass has left it so far; the loop has no break, so every
\* ball in contact is hit and the last insert of PlayerSwinging stands.
RECURSIVE BallLoop(_, _, _, _, _)
BallLoop(p, strength, order, sights, w) ==
    IF order = <<>> THEN w
    ELSE LET b == Head(order)
             sight == sights[b]
             hit == sight.bounce_found /\ InContact(player_t[p], sight)
             w2 == IF ~hit THEN w
                   ELSE [w EXCEPT
                           !.missed = FALSE,
                           !.swing[p] = start_cooldown(w.swing[p]),
                           !.anim[p] = "Swinging",
                           !.inactive = w.inactive \cup {p},
                           !.swinging[p] = Some(HitSwinging(player_t[p], sight)),
                           !.balls[b] =
                               Some(HitBall(Get(w.balls[b]), p, player_aim[p], strength,
                                            sight.pos)),
                           !.evts = Append(w.evts, [ball_e |-> b, player_id |-> p])]
         IN BallLoop(p, strength, Tail(order), sights, w2)

\* Resolves, were player_q not filtered by Without<Inactive>
Resolves_inactive_too(p) == player_swing[p].status.tag = "Active"

\* the pass resolves the swing of player p: player_q is Without<Inactive>,
\* and the body is under if let Active(strength) = swing.status
Resolves(p) == p \notin inactive /\ player_swing[p].status.tag = "Active"

\* The body of the loop over player_q for player p.
PlayerPass(p, order, sights, w) ==
    IF ~Resolves(p) THEN w
    ELSE LET strength == player_swing[p].status.strength
             w0 == [w EXCEPT !.missed = TRUE]
             w1 == IF ~player_swing[p].timer.finished
                   THEN BallLoop(p, strength, order, sights, w0)
                   ELSE w0
         IN IF w1.missed
            THEN [w1 EXCEPT
                    !.swing[p] = start_cooldown(w1.swing[p]),
                    !.anim[p] = "Swinging",
                    !.inactive = w1.inactive \cup {p},
                    !.swinging[p] =
                        Some(MissSwinging(player_movement[p], player_aim[p]))]
            ELSE w1

RECURSIVE PlayerLoop(_, _, _, _)
PlayerLoop(players, order, sights, w) ==
    IF players = <<>> THEN w
    ELSE PlayerLoop(Tail(players), order, sights,
                    PlayerPass(Head(players), order, sights, w))

\* the orders in which a query may yield the members of S
Orders(S) == {o \in [1..Cardinality(S) -> S] : \A i, j \in DOMAIN o : i /= j => o[i] /= o[j]}

\* the players the pass resolves: With Active swing, Without<Inactive>
Swinging == {p \in Players : Resolves(p)}

\* With no swing Active the pass changes nothing.
handle_ball_swing_collisions ==
    /\ ~panicked
    /\ \E p \in Players : player_swing[p].status.tag = "Active"
    /\ \E sights \in [LiveBalls -> Sightings], players \in Orders(Players),
          order \in Orders(LiveBalls) :
          LET w == PlayerLoop(players, order, sights,
                              [missed |-> TRUE, swing |-> player_swing,
                               anim |-> player_anim, inactive |-> inactive,
                               swinging |-> player_swinging, balls |-> balls,
                               evts |-> <<>>])
          IN /\ player_swing' = w.swing
             /\ player_anim' = w.anim
             /\ inactive' = w.inactive
             /\ player_swinging' = w.swinging
             /\ balls' = w.balls
             /\ ball_hit_evts' = w.evts
             /\ sight_log' =
                    [b \in BallIds |->
                        IF b \in LiveBalls THEN Some(sights[b]) ELSE None]
    /\ swing_log' = Swinging
    /\ bounce_log' = NoBounce
    /\ aim_log' = NoAim
    /\ UNCHANGED <<player_movement, player_aim, aim_raw_dir, aim_t, player_t, jump_t, rally_vars,
                   net_offset, budget, panicked, ran>>

\* time.scaled_delta_seconds() of the frames this run has swing see
FrameDeltas == IF budget.delta = "varied" THEN VariedDeltaTimes ELSE DeltaTimes

(***************************************************************************)
(* move_player: the movement of the players without Inactive, for a frame  *)
(* of scaled delta dt (ms).                                                *)
(***************************************************************************)
\* the corners of the player's area: area_btm_left and area_top_right
PlayerArea(p) ==
    LET player_size == <<PLAYER_SIZE, PLAYER_SIZE>>
        court_w_half == court_view[1] \div 2 + player_size[1]
        player_area_size ==
            IF is_left(p) THEN <<court_w_half + net_offset, court_view[2]>>
            ELSE <<court_w_half - net_offset, court_view[2]>>
        \* the halves are kept in half pixels: an f32 halves without rounding
        pos_offset == <<player_area_size[1], 0>>
        player_area_pos ==
            IF is_left(p) THEN VSub(<<2 * net_offset, 0>>, pos_offset)
            ELSE VAdd(<<2 * net_offset, 0>>, pos_offset)
        half_bounds == VSub(player_area_size, player_size)
        Px(v) == <<v[1] \div 2, v[2] \div 2>>
    IN [btm_left |-> Px(VSub(player_area_pos, half_bounds)),
        top_right |-> Px(VAdd(player_area_pos, half_bounds))]

\* VClamp, were only the y coordinate kept in its bounds
VClamp_y_only(v, lo, hi) == <<v[1], Clamp(v[2], lo[2], hi[2])>>

\* Vec2::clamp(min, max)
VClamp(v, lo, hi) == <<Clamp(v[1], lo[1], hi[1]), Clamp(v[2], lo[2], hi[2])>>

\* easing_time after the pass: += or -= dt, clamped to [0, time_to_max_speed]
EasedTime(movement, dt) ==
    Clamp(movement.easing_time + (IF movement.raw_dir = ZERO THEN -dt ELSE dt),
          0, time_to_max_speed)

\* final_pos of player p
MoveTo(p, dt) ==
    LET movement == player_movement[p]
        charging == player_swing[p].status.tag = "Charging"
        speed == IF charging THEN player_charging_speed ELSE player_speed
        dir == IF movement.raw_dir /= ZERO THEN movement.raw_dir
               ELSE movement.last_non_zero_raw_dir
        target == <<player_t[p][1] + (dir[1] * speed * dt) \div 1000000,
                    player_t[p][2] + (dir[2] * speed * dt) \div 1000000>>
        ease_t == inverse_lerp(0, time_to_max_speed, EasedTime(movement, dt))
        eased == <<lerp(player_t[p][1], target[1], ease_t),
                   lerp(player_t[p][2], target[2], ease_t)>>
    IN VClamp(eased, PlayerArea(p).btm_left, PlayerArea(p).top_right)

\* the animation the pass leaves: by whether the position changed, and charging
MoveAnimation(p, final_pos) ==
    IF final_pos /= player_t[p]
    THEN IF player_swing[p].status.tag = "Charging" THEN "Walking" ELSE "Running"
    ELSE "Idle"

move_player ==
    /\ ~panicked
    /\ budget.moves > 0
    /\ budget' = [budget EXCEPT !.moves = @ - 1]
    /\ \E dt \in MoveDeltaTimes :
          /\ player_t' =
                 [p \in Players |->
                     IF p \in inactive THEN player_t[p] ELSE MoveTo(p, dt)]
          /\ player_anim' =
                 [p \in Players |->
                     IF p \in inactive THEN player_anim[p]
                     ELSE MoveAnimation(p, MoveTo(p, dt))]
          /\ player_movement' =
                 [p \in Players |->
                     IF p \in inactive THEN player_movement[p]
                     ELSE [player_movement[p] EXCEPT
                             !.easing_time = EasedTime(player_movement[p], dt),
                             !.last_non_zero_raw_dir =
                                 IF player_movement[p].raw_dir /= ZERO
                                 THEN player_movement[p].raw_dir ELSE @]]
    /\ NewTick
    /\ UNCHANGED <<player_swing, player_aim, aim_raw_dir, aim_t, jump_t, inactive, player_swinging,
                   balls, rally_vars, net_offset, panicked, ran>>

(***************************************************************************)
(* swing: the jump/swing reaction, for a frame of scaled delta dt (ms).    *)
(* The squash and stretch it writes to the jump entity's scale is visual   *)
(* only and is not kept.                                                   *)
(***************************************************************************)
\* DashTo, were the dash not kept on the player's side of the net
DashTo_across(p, t, swinging, dt) ==
    <<t[1] + (swinging.movement_dir[1] * swinging.movement_speed * dt) \div 1000000,
      t[2] + (swinging.movement_dir[2] * swinging.movement_speed * dt) \div 1000000>>

\* the dash: translation += movement_dir * movement_speed * dt, kept on the
\* player's side of the net
DashTo(p, t, swinging, dt) ==
    LET x == t[1] + (swinging.movement_dir[1] * swinging.movement_speed * dt) \div 1000000
        y == t[2] + (swinging.movement_dir[2] * swinging.movement_speed * dt) \div 1000000
    IN <<IF is_left(p) THEN Min(x, net_offset - PLAYER_SIZE \div 2)
         ELSE Max(x, net_offset + PLAYER_SIZE \div 2),
         y>>

\* t.translation.y += current_jump_vel * dt
JumpTo(y, swinging, dt) == y + (swinging.current_jump_vel * dt) \div 1000

\* Fall, were the velocity of the jump kept from going under zero
Fall_floats(swinging, dt) ==
    [swinging EXCEPT !.current_jump_vel = Max(@ + (PLAYER_GRAVITY * dt) \div 1000, 0)]

\* current_jump_vel += PLAYER_GRAVITY * dt
Fall(swinging, dt) ==
    [swinging EXCEPT !.current_jump_vel = @ + (PLAYER_GRAVITY * dt) \div 1000]

\* Landed, were a player to land only once well under the ground
Landed_late(y) == y < -PLAYER_JUMP_HEIGHT_MIN

\* t.translation.y <= 0.
Landed(y) == y <= 0

\* PlayerMovement on landing
LandMovement(movement, swinging) ==
    [movement EXCEPT !.easing_time = 1000,
                     !.raw_dir = ZERO,
                     !.last_non_zero_raw_dir = swinging.movement_dir]

swing ==
    /\ ~panicked
    /\ \E p \in Players : IsSome(player_swinging[p])
    /\ \E dt \in FrameDeltas :
          LET airborne == {p \in Players : IsSome(player_swinging[p])}
              y(p) == JumpTo(jump_t[p], Get(player_swinging[p]), dt)
              landing == {p \in airborne : Landed(y(p))}
          IN /\ player_t' =
                    [p \in Players |->
                        IF p \in airborne
                        THEN DashTo(p, player_t[p], Get(player_swinging[p]), dt)
                        ELSE player_t[p]]
             /\ jump_t' =
                    [p \in Players |->
                        IF p \in landing THEN 0
                        ELSE IF p \in airborne THEN y(p) ELSE jump_t[p]]
             /\ player_movement' =
                    [p \in Players |->
                        IF p \in landing
                        THEN LandMovement(player_movement[p], Get(player_swinging[p]))
                        ELSE player_movement[p]]
             /\ player_anim' =
                    [p \in Players |->
                        IF p \in landing THEN "Landing" ELSE player_anim[p]]
             /\ player_swinging' =
                    [p \in Players |->
                        IF p \in landing THEN None
                        ELSE IF p \in airborne
                             THEN Some(Fall(Get(player_swinging[p]), dt))
                             ELSE player_swinging[p]]
             /\ inactive' = inactive \ landing
    /\ NewTick
    /\ UNCHANGED <<player_swing, player_aim, aim_raw_dir, aim_t, balls, rally_vars, net_offset,
                   budget, panicked, ran>>

(***************************************************************************)
(* on_ball_bounced, for one notification of the reader.  The reader's      *)
(* loop keeps nothing from one notification to the next but the world      *)
(* itself, so several notifications of a tick are this action repeated.    *)
(* ball.region is the ball collaborator's to write: the resolver sees      *)
(* what it last wrote, an input here.                                      *)
(***************************************************************************)
BallBouncedEvt(ball_e, s, bounce_count) ==
    [ball_e |-> ball_e, side |-> s, bounce_count |-> bounce_count]

BallRes(losing_player, fault_count, reason) ==
    [losing_player |-> losing_player, fault_count |-> fault_count, reason |-> reason]

\* FaultRes, were the fault count carried on past the limit as well
FaultRes_carried(count, player_id) ==
    Some(BallRes(IF count > 1 THEN Some(player_id) ELSE None, count, "double fault"))

\* FaultRes, were a fault count within the limit to ask for no resolution
FaultRes_within_limit_none(count, player_id) ==
    IF count > 1 THEN Some(BallRes(Some(player_id), 0, "double fault")) ELSE None

\* the BallStatus::Fault arm
FaultRes(count, player_id) ==
    LET limit == 1
    IN Some(BallRes(IF count > limit THEN Some(player_id) ELSE None,
                    IF count > limit THEN 0 ELSE count,
                    "double fault"))

\* player_q.iter().find(|p| p.side == ev.side), over the players without Inactive
FindSidePlayer(s) ==
    LET found == {p \in Players \ inactive : side(p) = s}
    IN IF found = {} THEN None ELSE Some(CHOOSE p \in found : TRUE)

\* the BallStatus::Rally arm takes the too-many-bounces branch
TooManyBounces(region, bounce_count) ==
    LET bounce_limit == 1
    IN /\ ~(is_out_of_bounds(region) /\ bounce_count = 1)
       /\ bounce_count > bounce_limit

\* RallyRes, were a first bounce out of bounds lost by the owner of the bounce side
RallyRes_out_by_side(player_id, region, ev) ==
    IF is_out_of_bounds(region) /\ ev.bounce_count = 1
    THEN Some(BallRes(FindSidePlayer(ev.side), 0, "shooting out of bounds"))
    ELSE IF TooManyBounces(region, ev.bounce_count)
         THEN Some(BallRes(FindSidePlayer(ev.side), 0, "too many bounces"))
         ELSE None

\* the BallStatus::Rally arm; the unwrap of the player found is in Panics
RallyRes(player_id, region, ev) ==
    IF is_out_of_bounds(region) /\ ev.bounce_count = 1
    THEN Some(BallRes(Some(player_id), 0, "shooting out of bounds"))
    ELSE IF TooManyBounces(region, ev.bounce_count)
         THEN Some(BallRes(FindSidePlayer(ev.side), 0, "too many bounces"))
         ELSE None

\* MatchStatus, were a first bounce in bounds of a Rally ball lost by its hitter
MatchStatus_first_bounce_lost(status, region, ev) ==
    IF status.tag = "Fault" THEN FaultRes(status.count, status.player)
    ELSE IF status.tag = "Rally"
         THEN IF ev.bounce_count = 1
              THEN Some(BallRes(Some(status.player), 0, "first bounce"))
              ELSE RallyRes(status.player, region, ev)
         ELSE None

\* let ball_res = match *status
MatchStatus(status, region, ev) ==
    IF status.tag = "Fault" THEN FaultRes(status.count, status.player)
    ELSE IF status.tag = "Rally" THEN RallyRes(status.player, region, ev)
    ELSE None

\* Option::unwrap of the player found on the bounce side panics on None
Panics(status, region, ev) ==
    /\ status.tag = "Rally"
    /\ TooManyBounces(region, ev.bounce_count)
    /\ FindSidePlayer(ev.side) = None

\* AwardLeft, were the point to go to the side of the losing player
AwardLeft_to_loser(losing_player) == is_left_player_id(losing_player)

\* the side add_point_to_score is asked to award: !is_left_player_id(losing_player)
AwardLeft(losing_player) == ~is_left_player_id(losing_player)

\* score::add_point_to_score
add_point_to_score(sc, to_left) ==
    IF to_left THEN [sc EXCEPT !.left = @ + 1] ELSE [sc EXCEPT !.right = @ + 1]

\* the regions CourtRegion::get_random_right / get_random_left may return
RotatedRegions(region) == IF region_is_left(region) THEN RightRegions ELSE LeftRegions

\* NextServingRegions, were the serve to rotate on every resolution
NextServingRegions_always(region, swap_serve) == RotatedRegions(region)

\* the regions the serve may stand at after the resolution: rotated to the
\* other side if the point swapped the serve, else where it stood
NextServingRegions(region, swap_serve) ==
    IF swap_serve THEN RotatedRegions(region) ELSE {region}

\* ServedBall, were the ball spawned where the serve stood before it rotated
ServedBall_unrotated(region, fault_count) ==
    spawn_ball(serving_region, fault_count, get_player_id(serving_region))

\* the ball spawned for the next serve at the serving region
ServedBall(region, fault_count) ==
    spawn_ball(region, fault_count, get_player_id(region))

\* the notification's ball is gone, or its status asks for no resolution
BounceSkipped(ev, region) ==
    /\ \/ ~IsSome(balls[ev.ball_e])
       \/ /\ IsSome(balls[ev.ball_e])
          /\ ~Panics(Get(balls[ev.ball_e]).status, region, ev)
          /\ MatchStatus(Get(balls[ev.ball_e]).status, region, ev) = None
    /\ bounce_log' =
           [NoBounce EXCEPT
              !.seen = TRUE, !.ball_e = ev.ball_e, !.side = ev.side,
              !.bounce_count = ev.bounce_count, !.region = region,
              !.found = IsSome(balls[ev.ball_e]),
              !.status = IF IsSome(balls[ev.ball_e])
                         THEN Get(balls[ev.ball_e]).status ELSE Used]
    /\ UNCHANGED <<balls, score, serving_region, panicked>>

\* the unwrap panics before anything is written
BouncePanics(ev, region) ==
    /\ IsSome(balls[ev.ball_e])
    /\ Panics(Get(balls[ev.ball_e]).status, region, ev)
    /\ panicked' = TRUE
    /\ bounce_log' =
           [NoBounce EXCEPT
              !.seen = TRUE, !.ball_e = ev.ball_e, !.side = ev.side,
              !.bounce_count = ev.bounce_count, !.region = region, !.found = TRUE,
              !.status = Get(balls[ev.ball_e]).status]
    /\ UNCHANGED <<balls, score, serving_region>>

\* if let Some((losing_player, fault_count, reason)) = ball_res
BounceResolved(ev, region) ==
    /\ IsSome(balls[ev.ball_e])
    /\ ~Panics(Get(balls[ev.ball_e]).status, region, ev)
    /\ IsSome(MatchStatus(Get(balls[ev.ball_e]).status, region, ev))
    /\ FreeSlots /= {}
    /\ LET ball == Get(balls[ev.ball_e])
           res == Get(MatchStatus(ball.status, region, ev))
           award == IsSome(res.losing_player)
           to_left == AwardLeft(Get(res.losing_player))
           slot == CHOOSE b \in FreeSlots : \A c \in FreeSlots : b <= c
       IN /\ award => (IF to_left THEN score.left ELSE score.right) < MaxPoints
          /\ score' = IF award THEN add_point_to_score(score, to_left) ELSE score
          /\ \E swap_serve \in (IF award THEN BOOLEAN ELSE {FALSE}),
                trail_found \in BOOLEAN :
                \E next_region \in NextServingRegions(serving_region, swap_serve) :
                   /\ serving_region' = next_region
                   /\ balls' =
                          [balls EXCEPT
                             ![ev.ball_e] =
                                 Some([ball EXCEPT !.status = Used, !.scale_out = TRUE]),
                             ![slot] =
                                 Some(ServedBall(next_region, res.fault_count))]
                   /\ bounce_log' =
                          [seen |-> TRUE, ball_e |-> ev.ball_e, side |-> ev.side,
                           bounce_count |-> ev.bounce_count, found |-> TRUE,
                           status |-> ball.status, region |-> region,
                           resolved |-> TRUE,
                           losing_player |-> res.losing_player,
                           fault_count |-> res.fault_count,
                           awarded |-> IF award
                                       THEN Some(IF to_left THEN "left" ELSE "right")
                                       ELSE None,
                           swap_serve |-> swap_serve,
                           fade_trail |-> trail_found,
                           spawned |-> Some([region |-> next_region,
                                             fault_count |-> res.fault_count,
                                             player_id |-> get_player_id(next_region)])]
    /\ UNCHANGED panicked

\* where the ball collaborator may have a ball land on side s
LandingRegions(s) == {IF s < 0 THEN "TopLeft" ELSE "BottomRight", "OutOfBounds"}

on_ball_bounced ==
    /\ ~panicked
    /\ budget.bounces > 0
    /\ budget' = [budget EXCEPT !.bounces = @ - 1]
    /\ \E ball_e \in BallIds, s \in {-1, 1}, n \in 1..MaxBounceCount :
       \E region \in LandingRegions(s) :
          LET ev == BallBouncedEvt(ball_e, s, n)
          IN \/ BounceSkipped(ev, region)
             \/ BouncePanics(ev, region)
             \/ BounceResolved(ev, region)
    /\ ball_hit_evts' = <<>>
    /\ swing_log' = {}
    /\ sight_log' = NoSights
    /\ aim_log' = NoAim
    /\ UNCHANGED <<player_vars, net_offset, ran>>

(***************************************************************************)
(* aim (459-512): each aim entity whose player is not Inactive turns       *)
(* toward its clamped raw direction, and PlayerAim.dir follows the turn.   *)
(* The face sprite's rotation (505-509) is a function of PlayerAim.dir and *)
(* is not kept.                                                            *)
(***************************************************************************)
\* AimTarget, were the raw direction taken as it comes
AimTarget_raw(p, dir) == dir

\* the direction the aim turns toward, from the normalized raw direction
AimTarget(p, dir) ==
    LET player_x_sign == get_sign(p)
    IN IF dir = <<player_x_sign * 1000, 0>> THEN <<-player_x_sign * 1000, 0>>
       ELSE IF player_x_sign < 0
            THEN VClamp(dir, <<clamp_x, -clamp_y>>, <<clamp_x, clamp_y>>)
            ELSE VClamp(dir, <<-clamp_x, -clamp_y>>, <<-clamp_x, clamp_y>>)

\* limit: the turn a pass allows, in hundredths of a degree
AimLimit(raw_dir, dt) == (((aim_turn_rate \div 1000) * dt) * Length(raw_dir)) \div 1000

\* AimTurn, were the aim to turn by the limit whatever is left to turn
AimTurn_overshoots(rotation, target_rotation, limit) ==
    Wrap(rotation + (IF target_rotation > rotation THEN limit ELSE -limit))

\* aim_t.rotation after the pass: the target when it is within the limit,
\* else the rotation turned by the limit toward the side of the target
AimTurn(rotation, target_rotation, limit) ==
    IF QuatAngleBetween(target_rotation, rotation) <= limit
    THEN target_rotation
    ELSE Wrap(rotation + (IF target_rotation > rotation THEN limit ELSE -limit))

\* what a pass works out for player p
AimPass(p, dt) ==
    LET dir == AimTarget(p, normalize_or_zero(aim_raw_dir[p]))
        target_rotation == from_axis_angle_neg_z(AngleBetweenY(dir))
        limit == AimLimit(aim_raw_dir[p], dt)
    IN [raw_dir |-> aim_raw_dir[p], target |-> dir, limit |-> limit,
        rotation |-> AimTurn(aim_t[p], target_rotation, limit)]

aim ==
    /\ ~panicked
    /\ budget.aims > 0
    /\ budget' = [budget EXCEPT !.aims = @ - 1]
    /\ \E dt \in AimDeltaTimes :
          LET Skipped(p) ==
                  p \in inactive \/ normalize_or_zero(aim_raw_dir[p]) = ZERO
          IN /\ aim_t' =
                    [p \in Players |->
                        IF Skipped(p) THEN aim_t[p] ELSE AimPass(p, dt).rotation]
             /\ player_aim' =
                    [p \in Players |->
                        IF Skipped(p) THEN player_aim[p]
                        ELSE RotateY(AimPass(p, dt).rotation)]
             /\ aim_log' =
                    [p \in Players |->
                        IF Skipped(p) THEN None ELSE Some(AimPass(p, dt))]
    /\ ball_hit_evts' = <<>>
    /\ swing_log' = {}
    /\ sight_log' = NoSights
    /\ bounce_log' = NoBounce
    /\ UNCHANGED <<player_swing, player_movement, aim_raw_dir, player_anim,
                   player_t, jump_t, inactive, player_swinging, balls,
                   rally_vars, net_offset, panicked, ran>>

(***************************************************************************)
(* The collaborators, at their interface.                                  *)
(***************************************************************************)
\* input: a player starts charging a swing
StartCharging(p) ==
    /\ ~panicked
    /\ budget.swings > 0
    /\ player_swing[p].status = Idle
    /\ \E s \in Strengths :
          player_swing' = [player_swing EXCEPT ![p].status = Charging(s)]
    /\ budget' = [budget EXCEPT !.swings = @ - 1]
    /\ NewTick
    /\ UNCHANGED <<player_movement, player_aim, aim_raw_dir, aim_t, player_anim, player_t, jump_t,
                   inactive, player_swinging, balls, rally_vars, net_offset,
                   panicked, ran>>

\* input: the charge is released and the swing window opens
ReleaseSwing(p) ==
    /\ ~panicked
    /\ player_swing[p].status.tag = "Charging"
    /\ player_swing' =
           [player_swing EXCEPT
              ![p].status = Active(player_swing[p].status.strength),
              ![p].timer = TimerFromSeconds(player_swing[p].duration_sec)]
    /\ NewTick
    /\ UNCHANGED <<player_movement, player_aim, aim_raw_dir, aim_t, player_anim, player_t, jump_t,
                   inactive, player_swinging, balls, rally_vars, net_offset,
                   budget, panicked, ran>>

\* the swing window closes: the timer of an Active swing runs out
TimerElapses(p) ==
    /\ ~panicked
    /\ player_swing[p].status.tag = "Active"
    /\ ~player_swing[p].timer.finished
    /\ player_swing' = [player_swing EXCEPT ![p].timer.finished = TRUE]
    /\ NewTick
    /\ UNCHANGED <<player_movement, player_aim, aim_raw_dir, aim_t, player_anim, player_t, jump_t,
                   inactive, player_swinging, balls, rally_vars, net_offset,
                   budget, panicked, ran>>

\* the cooldown timer runs out and the swing is Idle again
CooldownOver(p) ==
    /\ ~panicked
    /\ player_swing[p].status = Cooldown
    /\ player_swing' =
           [player_swing EXCEPT ![p].status = Idle, ![p].timer.finished = TRUE]
    /\ NewTick
    /\ UNCHANGED <<player_movement, player_aim, aim_raw_dir, aim_t, player_anim, player_t, jump_t,
                   inactive, player_swinging, balls, rally_vars, net_offset,
                   budget, panicked, ran>>

\* input: the raw movement directions of the players change
MoveInput ==
    /\ ~panicked
    /\ budget.inputs > 0
    /\ budget' = [budget EXCEPT !.inputs = @ - 1]
    /\ \E d \in MoveDirs :
          /\ \E p \in Players : d[p] /= player_movement[p].raw_dir
          /\ player_movement' =
                 [p \in Players |-> [player_movement[p] EXCEPT !.raw_dir = d[p]]]
    /\ NewTick
    /\ UNCHANGED <<player_swing, player_aim, aim_raw_dir, aim_t, player_anim, player_t, jump_t,
                   inactive, player_swinging, balls, rally_vars, net_offset,
                   panicked, ran>>

\* level: the net is moved to another offset
\* the input layer hands both players a new raw aim direction
AimInput ==
    /\ ~panicked
    /\ budget.aims > 0
    /\ budget.inputs > 0
    /\ budget' = [budget EXCEPT !.inputs = @ - 1]
    /\ \E d \in AimDirs :
          /\ \E p \in Players : d[p] /= aim_raw_dir[p]
          /\ aim_raw_dir' = [p \in Players |-> d[p]]
    /\ NewTick
    /\ UNCHANGED <<player_swing, player_movement, player_aim, aim_t,
                   player_anim, player_t, jump_t, inactive, player_swinging,
                   balls, rally_vars, net_offset, panicked, ran>>

NetMoves ==
    /\ ~panicked
    /\ budget.inputs > 0
    /\ budget' = [budget EXCEPT !.inputs = @ - 1]
    /\ \E n \in NetOffsets \ {net_offset} : net_offset' = n
    /\ NewTick
    /\ UNCHANGED <<player_vars, balls, rally_vars, panicked, ran>>

\* ball: a serve fails; the ball carries one fault more
ServeFaults(b) ==
    /\ ~panicked
    /\ IsSome(balls[b])
    /\ Get(balls[b]).status.tag = "Serve"
    /\ balls' =
           [balls EXCEPT
              ![b] = Some([Get(balls[b]) EXCEPT
                             !.status = Fault(Get(balls[b]).status.count + 1,
                                              Get(balls[b]).status.player)])]
    /\ NewTick
    /\ UNCHANGED <<player_vars, rally_vars, net_offset, budget, panicked, ran>>

\* scene: the scale-out tween of a resolved ball ends (TweenDoneAction::DespawnRecursive)
Despawn(b) ==
    /\ ~panicked
    /\ IsSome(balls[b])
    /\ Get(balls[b]).scale_out
    /\ balls' = [balls EXCEPT ![b] = None]
    /\ NewTick
    /\ UNCHANGED <<player_vars, rally_vars, net_offset, budget, panicked, ran>>

Next ==
    \/ handle_ball_swing_collisions
    \/ swing
    \/ on_ball_bounced
    \/ \E p \in Players : StartCharging(p)
    \/ \E p \in Players : ReleaseSwing(p)
    \/ \E p \in Players : TimerElapses(p)
    \/ \E p \in Players : CooldownOver(p)
    \/ \E b \in BallIds : ServeFaults(b)
    \/ \E b \in BallIds : Despawn(b)

Spec == Init /\ [][Next]_vars

SpecSwing == InitSwing /\ [][Next]_vars

\* the hit itself, from every charge strength and prior speed
NextHit ==
    \/ handle_ball_swing_collisions
    \/ swing
    \/ \E p \in Players : TimerElapses(p)
    \/ \E p \in Players : CooldownOver(p)

SpecSpeed == InitHit /\ [][NextHit]_vars

\* The flight of a swing, frame after frame: swing is a system of the
\* Update stage and runs in every tick, so with ticks going on it is not
\* left waiting for ever.
SpecLanding == InitFlight /\ [][NextHit]_vars /\ WF_vars(swing)

\* the movement and the swing of the players, the net moving under them
NextMove ==
    \/ move_player
    \/ MoveInput
    \/ NetMoves
    \/ handle_ball_swing_collisions
    \/ swing
    \/ \E p \in Players : StartCharging(p)
    \/ \E p \in Players : ReleaseSwing(p)
    \/ \E p \in Players : TimerElapses(p)
    \/ \E p \in Players : CooldownOver(p)

SpecMove == InitMove /\ [][NextMove]_vars

NextAim ==
    \/ aim
    \/ AimInput
    \/ handle_ball_swing_collisions
    \/ swing
    \/ \E p \in Players : StartCharging(p)
    \/ \E p \in Players : ReleaseSwing(p)
    \/ \E p \in Players : TimerElapses(p)
    \/ \E p \in Players : CooldownOver(p)

SpecAim == InitAim /\ [][NextAim]_vars

\* the systems of the players, each fed by its input
NextFrame ==
    \/ move_player
    \/ MoveInput
    \/ aim
    \/ AimInput
    \/ handle_ball_swing_collisions
    \/ swing
    \/ \E p \in Players : StartCharging(p)
    \/ \E p \in Players : ReleaseSwing(p)
    \/ \E p \in Players : TimerElapses(p)
    \/ \E p \in Players : CooldownOver(p)

SpecFrame == InitFrame /\ [][NextFrame]_vars

SpecLock == InitLock /\ [][NextFrame]_vars

(***************************************************************************)
(* PlayerPlugin::build (46-61): the schedule of a tick.  The systems of    *)
(* the on_update set go to the Update stage, the resolver is added to      *)
(* PostUpdate and follow_scale to Last; a stage runs when the stages       *)
(* before it are through, and within a stage the executor may run the      *)
(* systems in any order that keeps the declared before/after constraints.  *)
(***************************************************************************)
SWING_LABEL == "swing"

Systems ==
    {"move_player", "aim", "on_ball_bounced", "swing",
     "handle_ball_swing_collisions", "follow_scale"}

\* CoreStage::Update, PostUpdate and Last, in the order the app runs them
Update == 1
PostUpdate == 2
Last == 3

\* StageOf, were every system added to the Update stage
StageOf_all_update(s) == Update

\* the stage build adds system s to
StageOf(s) ==
    CASE s \in {"move_player", "aim", "on_ball_bounced", "swing"} -> Update
      [] s = "handle_ball_swing_collisions" -> PostUpdate
      [] s = "follow_scale" -> Last

\* the labels build gives system s: none
Labels(s) == {}

\* the systems move_player is declared .before(): those labelled SWING_LABEL
RunsBefore(s) ==
    IF s = "move_player" THEN {t \in Systems : SWING_LABEL \in Labels(t)} ELSE {}

\* the systems that have run in the tick under way
Ran == {ran[i] : i \in DOMAIN ran}

game_vars ==
    <<player_vars, balls, ball_hit_evts, rally_vars, net_offset, bounce_log,
      swing_log, sight_log, aim_log, budget, panicked>>

\* the executor runs system s, taken here for what it is scheduled as only
RunSystem(s) ==
    /\ s \notin Ran
    /\ \A t \in Systems : StageOf(t) < StageOf(s) => t \in Ran
    /\ \A t \in Systems : s \in RunsBefore(t) => t \in Ran
    /\ ran' = Append(ran, s)
    /\ UNCHANGED game_vars

\* the last stage is through: the next tick starts
EndOfTick ==
    /\ Ran = Systems
    /\ ran' = <<>>
    /\ UNCHANGED game_vars

InitSchedule == InitFor("BottomLeft", 0, 0, 0, 0)

NextSchedule ==
    \/ \E s \in Systems : RunSystem(s)
    \/ EndOfTick

SpecSchedule == InitSchedule /\ [][NextSchedule]_vars

(***************************************************************************)
(* Properties.                                                             *)
(***************************************************************************)
\* the hits the last resolver pass registered for player p
HitsOf(p) == {i \in DOMAIN ball_hit_evts : ball_hit_evts[i].player_id = p}

\* the last player to hit ball b in the pass a step makes
LastHitter(b) ==
    LET hits == {i \in DOMAIN ball_hit_evts' : ball_hit_evts'[i].ball_e = b}
        last == CHOOSE i \in hits : \A j \in hits : j <= i
    IN ball_hit_evts'[last].player_id

\* the balls the pass of a step hits
HitBalls == {ball_hit_evts'[i].ball_e : i \in DOMAIN ball_hit_evts'}

\* a step handles a bounce notification of a ball that is there
BounceHandled == bounce_log'.seen /\ IsSome(balls[bounce_log'.ball_e])

\* the status of the notification's ball as the resolver finds it
BouncedStatus == Get(balls[bounce_log'.ball_e]).status

\* the balls a step spawns
SpawnedBalls == {b \in BallIds : ~IsSome(balls[b]) /\ IsSome(balls'[b])}

\* the score once the player losing has given a point to the other player
ScoreAfterLoss(losing_player) ==
    IF losing_player = 1 THEN [score EXCEPT !.right = @ + 1]
    ELSE [score EXCEPT !.left = @ + 1]

\* the player whose side is s
OwnerOf(s) == CHOOSE p \in Players : side(p) = s

\* C1: in one pass of handle_ball_swing_collisions a player whose swing is
\* Active registers at most one hit, however many balls are within the
\* contact radius.
C1_AtMostOneHitPerPass == \A p \in Players : Cardinality(HitsOf(p)) <= 1

\* C2: once the resolver has processed a player without Inactive whose
\* swing was Active, the swing is in Cooldown with a fresh timer of the
\* cooldown duration, after a hit and after a miss alike.
C2_CooldownAfterResolution ==
    \A p \in swing_log :
        /\ player_swing[p].status = Cooldown
        /\ player_swing[p].timer = TimerFromSeconds(cooldown_sec)

\* C2: a pass has resolved both players' swings, one by a hit, one by a miss
C2_Witness ==
    /\ swing_log = Players
    /\ Len(ball_hit_evts) = 1
    /\ \A p \in Players : player_swing[p].status = Cooldown

\* C3: every bounce notification of a Rally ball with a bounce count over the
\* limit of 1 is resolved with the owner of the bounce side as the losing
\* player and the point given to the other player, whatever the state
\* (the owner being airborne included).
C3_TooManyBouncesLoser ==
    [][(BounceHandled /\ BouncedStatus.tag = "Rally" /\ bounce_log'.bounce_count > 1)
          => /\ bounce_log'.losing_player = Some(OwnerOf(bounce_log'.side))
             /\ score' = ScoreAfterLoss(OwnerOf(bounce_log'.side))]_vars

\* C4: no bounce notification and no swing is fatal: a lookup that finds
\* nothing is skipped and the tick completes.
C4_NothingFatal == ~panicked

\* C5: a bounce notification of a Fault ball with a fault count over the
\* limit of 1 is lost by the player of the Fault status, the server, and the
\* ball spawned next carries a fault count of 0.
C5_DoubleFaultLoser ==
    [][(BounceHandled /\ BouncedStatus.tag = "Fault" /\ BouncedStatus.count > 1)
          => /\ bounce_log'.losing_player = Some(BouncedStatus.player)
             /\ score' = ScoreAfterLoss(BouncedStatus.player)
             /\ bounce_log'.fault_count = 0
             /\ SpawnedBalls /= {}
             /\ \A b \in SpawnedBalls :
                   /\ Get(balls'[b]).status.tag = "Serve"
                   /\ Get(balls'[b]).status.count = 0]_vars

\* C5: a double fault has been resolved
C5_Witness ==
    /\ bounce_log.seen
    /\ bounce_log.status.tag = "Fault"
    /\ bounce_log.status.count > 1
    /\ bounce_log.resolved
    /\ IsSome(bounce_log.losing_player)

\* C6, as stated: a bounce notification of a Fault ball with a fault count
\* of at most 1 resolves nothing: no point, the ball's status as it was, the
\* serving region as it was, no ball spawned.
C6_FaultWithinLimitNoResolution ==
    [][(BounceHandled /\ BouncedStatus.tag = "Fault" /\ BouncedStatus.count <= 1)
          => /\ score' = score
             /\ Get(balls'[bounce_log'.ball_e]).status = BouncedStatus
             /\ serving_region' = serving_region
             /\ SpawnedBalls = {}]_vars

\* C6, as the code has it: a bounce notification of a Fault ball with a
\* fault count of at most 1 awards no point and leaves the serving region as
\* it was, yet the bounce is resolved: the ball becomes Used and scales out,
\* and one ball is spawned at the serving region, for its player, carrying
\* the fault count.
C6_FaultWithinLimitRespawns ==
    [][(BounceHandled /\ BouncedStatus.tag = "Fault" /\ BouncedStatus.count <= 1)
          => /\ score' = score
             /\ serving_region' = serving_region
             /\ Get(balls'[bounce_log'.ball_e]).status = Used
             /\ Get(balls'[bounce_log'.ball_e]).scale_out
             /\ Cardinality(SpawnedBalls) = 1
             /\ \A b \in SpawnedBalls :
                   Get(balls'[b]).status =
                       Serve(serving_region, BouncedStatus.count,
                             get_player_id(serving_region))]_vars

\* C6: a first fault has bounced and been resolved without a losing player
C6_Witness ==
    /\ bounce_log.seen
    /\ bounce_log.status.tag = "Fault"
    /\ bounce_log.status.count = 1
    /\ bounce_log.resolved
    /\ bounce_log.losing_player = None

\* C7: a first bounce (bounce_count = 1) of a Rally ball landing out of
\* bounds is lost by the player of the Rally status, the last hitter,
\* whichever side the ball landed on.
C7_OutOfBoundsLoser ==
    [][(/\ BounceHandled
        /\ BouncedStatus.tag = "Rally"
        /\ bounce_log'.bounce_count = 1
        /\ is_out_of_bounds(bounce_log'.region))
          => /\ bounce_log'.losing_player = Some(BouncedStatus.player)
             /\ score' = ScoreAfterLoss(BouncedStatus.player)]_vars

\* C7: a Rally ball has landed out of bounds on the side of the other player
C7_Witness ==
    /\ bounce_log.seen
    /\ bounce_log.status.tag = "Rally"
    /\ bounce_log.bounce_count = 1
    /\ is_out_of_bounds(bounce_log.region)
    /\ bounce_log.side /= side(bounce_log.status.player)
    /\ bounce_log.resolved

\* C8: a bounce notification of a Serve or Used ball, or of a Rally ball on
\* a first bounce in bounds, changes nothing: the score, every ball and its
\* status, the serving region and the set of balls stay as they were.
C8_NoResolutionChangesNothing ==
    [][(/\ BounceHandled
        /\ \/ BouncedStatus.tag \in {"Serve", "Used"}
           \/ /\ BouncedStatus.tag = "Rally"
              /\ bounce_log'.bounce_count = 1
              /\ ~is_out_of_bounds(bounce_log'.region))
          => /\ score' = score
             /\ balls' = balls
             /\ serving_region' = serving_region]_vars

\* C8: a Rally ball has made its first bounce in bounds
C8_Witness ==
    /\ bounce_log.seen
    /\ bounce_log.found
    /\ bounce_log.status.tag = "Rally"
    /\ bounce_log.bounce_count = 1
    /\ ~is_out_of_bounds(bounce_log.region)
    /\ ~bounce_log.resolved

\* C9: a hit turns a Serve ball of another player than the hitter, and a
\* Rally ball of any player, into a Rally ball of the hitter: the Rally tag
\* is the player who touched the ball last.
C9_HitRetagsRally ==
    [][\A b \in HitBalls :
          LET pre == Get(balls[b]).status
              post == Get(balls'[b]).status
          IN /\ pre.tag = "Rally" => post = Rally(LastHitter(b))
             /\ (pre.tag = "Serve" /\ pre.player /= LastHitter(b))
                   => post = Rally(LastHitter(b))]_vars

\* C9: the first ball, served by player 1 and not yet bounced, is a Rally
\* ball of player 1 by the hit of this pass: player 2 had volleyed it and
\* player 1 has hit the Rally ball back.
C9_Witness ==
    /\ budget.bounces = MatchBounces
    /\ ball_hit_evts = <<[ball_e |-> 1, player_id |-> 1]>>
    /\ IsSome(balls[1])
    /\ Get(balls[1]).status = Rally(1)

C11_HitApexInRange ==
    \A i \in DOMAIN ball_hit_evts :
        LET b == ball_hit_evts[i].ball_e
        IN IsSome(balls[b])
              => /\ BALL_MIN_HEIGHT <= Get(balls[b]).bounce.height
                 /\ Get(balls[b]).bounce.height <= BALL_MAX_HEIGHT
                 /\ Get(balls[b]).bounce.target_height = Get(balls[b]).bounce.height

\* C11: a hit has left the ball with an apex strictly between the two limits
C11_Witness ==
    /\ ball_hit_evts /= <<>>
    /\ IsSome(balls[1])
    /\ BALL_MIN_HEIGHT < Get(balls[1]).bounce.height
    /\ Get(balls[1]).bounce.height < BALL_MAX_HEIGHT
    /\ Get(balls[1]).bounce.target_height = Get(balls[1]).bounce.height

\* C12: on any tick of the jump/swing reaction in which an airborne player's
\* jump position after the update is <= 0, the position is set to 0 and
\* both PlayerSwinging and Inactive are removed from the player; otherwise
\* the player stays airborne at the updated position.
C12_LandingRestoresControl ==
    [][\A p \in Players :
          (IsSome(player_swinging[p]) /\ player_swinging'[p] /= player_swinging[p])
             => \E dt \in FrameDeltas :
                   LET y == jump_t[p]
                              + (Get(player_swinging[p]).current_jump_vel * dt) \div 1000
                   IN IF y <= 0
                      THEN /\ jump_t'[p] = 0
                           /\ player_swinging'[p] = None
                           /\ p \notin inactive'
                      ELSE /\ jump_t'[p] = y
                           /\ IsSome(player_swinging'[p])
                           /\ p \in inactive']_vars

\* C12: a player has just landed from a swing and is under control again
C12_Witness ==
    \E p \in Players :
        /\ player_anim[p] = "Landing"
        /\ jump_t[p] = 0
        /\ player_swinging[p] = None
        /\ p \notin inactive
        /\ player_swing[p].status = Cooldown

\* a step is a pass of move_player
MovePass == budget'.moves < budget.moves

\* the least and the greatest x and y of player p's play area for the net
\* offset net: from the outer edge of the court view, a player's half width
\* beyond it, to a player's half width short of the net
AreaMinX(p, net) ==
    IF is_left(p) THEN -(court_view[1] \div 2) - PLAYER_SIZE \div 2
    ELSE net + PLAYER_SIZE \div 2
AreaMaxX(p, net) ==
    IF is_left(p) THEN net - PLAYER_SIZE \div 2
    ELSE court_view[1] \div 2 + PLAYER_SIZE \div 2
AreaMinY == -(court_view[2] \div 2 - PLAYER_SIZE \div 2)
AreaMaxY == court_view[2] \div 2 - PLAYER_SIZE \div 2

\* C13: after every pass of move_player each player it moves lies inside
\* the play area of its side, whatever the position, input direction, speed
\* and delta time it started from; a player on an edge whose input pushes
\* beyond it ends exactly on that edge.
C13_MoveStaysInArea ==
    [][MovePass =>
          \A p \in Players \ inactive :
             LET raw_dir == player_movement[p].raw_dir
                 from == player_t[p]
                 to == player_t'[p]
                 min_x == AreaMinX(p, net_offset)
                 max_x == AreaMaxX(p, net_offset)
             IN /\ min_x <= to[1] /\ to[1] <= max_x
                /\ AreaMinY <= to[2] /\ to[2] <= AreaMaxY
                /\ (from[1] = max_x /\ raw_dir[1] > 0) => to[1] = max_x
                /\ (from[1] = min_x /\ raw_dir[1] < 0) => to[1] = min_x
                /\ (from[2] = AreaMaxY /\ raw_dir[2] > 0) => to[2] = AreaMaxY
                /\ (from[2] = AreaMinY /\ raw_dir[2] < 0) => to[2] = AreaMinY]_vars

\* C13: a pass has taken the left player, pushing toward the net in a frame
\* long enough to carry it past the net, exactly onto the net-side edge
C13_Witness ==
    /\ budget.moves < MovePasses
    /\ 1 \notin inactive
    /\ player_movement[1].raw_dir = <<1000, 0>>
    /\ player_anim[1] = "Running"
    /\ player_t[1][1] = AreaMaxX(1, net_offset)

\* C14, as stated: in every reachable state the left player's x is at most
\* net offset - PLAYER_SIZE / 2 and the right player's x is at least
\* net offset + PLAYER_SIZE / 2.
C14_NeverAcrossNet ==
    /\ player_t[1][1] <= net_offset - PLAYER_SIZE \div 2
    /\ player_t[2][1] >= net_offset + PLAYER_SIZE \div 2

\* C14, as the code has it: every pass of move_player leaves each player it
\* moves, and every dash step of the jump/swing reaction leaves each
\* airborne player, on its own side of the net as the pass finds it: the
\* left player at most at net offset - PLAYER_SIZE / 2, the right player at
\* least at net offset + PLAYER_SIZE / 2.
C14_PassKeepsOwnSide ==
    [][\A p \in Players :
          (\/ MovePass /\ p \notin inactive
           \/ IsSome(player_swinging[p]) /\ player_swinging'[p] /= player_swinging[p])
             => IF is_left(p)
                THEN player_t'[p][1] <= net_offset' - PLAYER_SIZE \div 2
                ELSE player_t'[p][1] >= net_offset' + PLAYER_SIZE \div 2]_vars

\* C14: the dash of an airborne left player has been stopped at the net
C14_Witness ==
    /\ IsSome(player_swinging[1])
    /\ Get(player_swinging[1]).current_jump_vel
           /= Get(player_swinging[1]).initial_jump_vel
    /\ Get(player_swinging[1]).movement_dir[1] > 0
    /\ player_t[1][1] = net_offset - PLAYER_SIZE \div 2

\* the pure backward and the pure forward axis of player p, in thousandths
BackwardAxis(p) == IF is_left(p) THEN <<-1000, 0>> ELSE <<1000, 0>>
ForwardAxis(p) == IF is_left(p) THEN <<1000, 0>> ELSE <<-1000, 0>>

\* C15: when the normalized raw aim input of a player is the pure backward
\* axis of its side, the clamped target direction the pass of aim works out
\* for it is the pure forward axis of its side.
C15_BackwardAimsForward ==
    \A p \in Players :
       (/\ IsSome(aim_log[p])
        /\ normalize_or_zero(Get(aim_log[p]).raw_dir) = BackwardAxis(p))
          => Get(aim_log[p]).target = ForwardAxis(p)

\* C15: a pass has redirected a backward input of half length for the left
\* player and one of double length for the right player
C15_Witness ==
    /\ IsSome(aim_log[1]) /\ IsSome(aim_log[2])
    /\ Get(aim_log[1]).raw_dir = <<-500, 0>>
    /\ Get(aim_log[1]).target = <<1000, 0>>
    /\ Get(aim_log[2]).raw_dir = <<2000, 0>>
    /\ Get(aim_log[2]).target = <<-1000, 0>>

\* C16: in every reachable state PlayerAim.dir of each player lies in the
\* cone of its side: its forward component points to the opponent's side,
\* and its cross-court component is at most clamp_y against a forward
\* component of clamp_x.
C16_AimWithinCone ==
    \A p \in Players :
       LET forward == -get_sign(p) * player_aim[p][1]
       IN /\ forward > 0
          /\ Abs(player_aim[p][2]) * clamp_x <= clamp_y * forward

\* C16: an input steeper than the cone has first turned the left player's
\* aim by the limit of a pass and then brought it to rest on the edge of
\* the cone
C16_Witness ==
    /\ IsSome(aim_log[1])
    /\ Get(aim_log[1]).raw_dir = <<600, 800>>
    /\ Get(aim_log[1]).target = <<clamp_x, clamp_y>>
    /\ Get(aim_log[1]).limit = 1300
    /\ aim_t[1] = from_axis_angle_neg_z(AngleBetweenY(<<clamp_x, clamp_y>>))
    /\ player_aim[1] = <<800, 599>>

\* C17: in every reachable state the length of PlayerAim.dir of each player
\* is at most 1, whatever the length of the raw aim input.
C17_AimAtMostUnit ==
    \A p \in Players :
       player_aim[p][1] * player_aim[p][1] + player_aim[p][2] * player_aim[p][2]
          <= 1000 * 1000

\* C17: a raw input of length 2 whose clamped target is longer than 1 has
\* turned the left player's aim
C17_Witness ==
    /\ IsSome(aim_log[1])
    /\ Length(Get(aim_log[1]).raw_dir) = 2000
    /\ Length(Get(aim_log[1]).target) > 1000
    /\ player_aim[1] /= initial_dir(1)
    /\ player_aim[1] = RotateY(Get(aim_log[1]).rotation)

\* a step resolves the bounce notification it handles
BounceResolves == BounceHandled /\ bounce_log'.resolved

\* C18: whenever a bounce is resolved with a losing player, one point-award
\* request is issued, for the side of the other player (the right side when
\* player 1 loses, else the left side): that side's score goes up by one and
\* the other side's stays; and the bounced ball's status becomes Used.
C18_PointToOtherPlayer ==
    [][(BounceResolves /\ IsSome(bounce_log'.losing_player))
          => LET loser == Get(bounce_log'.losing_player)
             IN /\ bounce_log'.awarded = Some(IF loser = 1 THEN "right" ELSE "left")
                /\ score'.right = score.right + (IF loser = 1 THEN 1 ELSE 0)
                /\ score'.left = score.left + (IF loser = 1 THEN 0 ELSE 1)
                /\ Get(balls'[bounce_log'.ball_e]).status = Used]_vars

\* C18: player 2 has lost a rally and the left side has the point
C18_Witness ==
    /\ bounce_log.resolved
    /\ bounce_log.status.tag = "Rally"
    /\ bounce_log.losing_player = Some(2)
    /\ bounce_log.awarded = Some("left")
    /\ score = [left |-> 1, right |-> 0]
    /\ Get(balls[bounce_log.ball_e]).status = Used

\* C19: on a resolution the serving region moves to a region of the other
\* court side if and only if the point award reported that the serve
\* swapped; when it did not, or no point was awarded, the serving region
\* stays as it was.
C19_ServeRotatesIffSwapped ==
    [][BounceResolves
          => /\ bounce_log'.swap_serve
                 <=> region_is_left(serving_region') /= region_is_left(serving_region)
             /\ ~bounce_log'.swap_serve => serving_region' = serving_region
             /\ bounce_log'.losing_player = None => serving_region' = serving_region]_vars

\* C19: a point that swapped the serve has moved it from the left side to
\* the right side
C19_Witness ==
    /\ bounce_log.resolved
    /\ bounce_log.swap_serve
    /\ IsSome(bounce_log.awarded)
    /\ ~region_is_left(serving_region)
    /\ \E b \in BallIds :
          /\ IsSome(balls[b])
          /\ Get(balls[b]).status.tag = "Serve"
          /\ Get(balls[b]).status.player = 2

\* the fault count a resolution of a ball of status st carries: none after
\* a double fault or a loss in a rally, else the fault's own count
CarriedFaults(st) == IF st.tag = "Fault" /\ st.count <= 1 THEN st.count ELSE 0

\* C20: every resolution spawns exactly one ball, waiting to be served at
\* the serving region as it stands after any rotation, by the player of
\* that region's side, with the resolution's fault count: 0 after a double
\* fault or a loss in a rally.
C20_ResolutionSpawnsServe ==
    [][BounceResolves
          => /\ Cardinality(SpawnedBalls) = 1
             /\ \A b \in SpawnedBalls :
                   /\ Get(balls'[b]).status.tag = "Serve"
                   /\ Get(balls'[b]).status.region = serving_region'
                   /\ Get(balls'[b]).status.player =
                          (IF region_is_left(serving_region') THEN 1 ELSE 2)
                   /\ Get(balls'[b]).status.count = bounce_log'.fault_count
                   /\ Get(balls'[b]).status.count = CarriedFaults(BouncedStatus)]_vars

\* C20: after a rally lost with the serve swapped, the fresh ball waits at
\* the new serving region with no faults
C20_Witness ==
    /\ bounce_log.resolved
    /\ bounce_log.status.tag = "Rally"
    /\ bounce_log.swap_serve
    /\ IsSome(bounce_log.spawned)
    /\ Get(bounce_log.spawned).region = serving_region
    /\ \E b \in BallIds \ {bounce_log.ball_e} :
          /\ IsSome(balls[b])
          /\ Get(balls[b]).status =
                 Serve(serving_region, 0, get_player_id(serving_region))

\* the balls a resolver pass, shown the balls as in log, finds within the
\* contact radius of player p
InContactOf(p, log) ==
    {b \in BallIds : IsSome(log[b]) /\ InContact(player_t[p], Get(log[b]))}

\* the hit notifications of player p a step's pass sends
HitsBy(p) == {i \in DOMAIN ball_hit_evts' : ball_hit_evts'[i].player_id = p}

\* the distance of the dash a PlayerSwinging makes over a jump from
\* PLAYER_JUMP_VEL_BASE to PLAYER_JUMP_HEIGHT_MIN and back, rounded down
FallbackSpeed ==
    (PLAYER_SWING_DISTANCE * 2 * PLAYER_JUMP_VEL_BASE)
        \div (PLAYER_JUMP_HEIGHT_MIN * 2)

\* C21: a pass of the resolver that resolves the Active swing of a player
\* with no ball within the contact radius puts the swing on Cooldown, marks
\* the player Inactive and airborne with the fallback dash (twice
\* PLAYER_SWING_DISTANCE over the base jump) and the base jump velocity,
\* dashing along the normalized raw movement direction if that is not zero
\* and along the aim direction otherwise; it sends no hit notification of
\* the player, and if no other player is resolved no ball is modified.
C21_MissFallsBack ==
    [][\A p \in Players :
          (p \in swing_log' /\ InContactOf(p, sight_log') = {}) =>
              /\ player_swing'[p].status = Cooldown
              /\ p \in inactive'
              /\ player_swinging'[p] =
                     Some([movement_speed |-> FallbackSpeed,
                           movement_dir |->
                               IF player_movement[p].raw_dir /= ZERO
                               THEN Normalize(player_movement[p].raw_dir)
                               ELSE player_aim[p],
                           initial_jump_vel |-> PLAYER_JUMP_VEL_BASE,
                           current_jump_vel |-> PLAYER_JUMP_VEL_BASE])
              /\ HitsBy(p) = {}
              /\ (swing_log' = {p} => balls' = balls)]_vars

\* C21: a miss has sent a player with a raw movement direction off along it
\* rather than along the aim
C21_Witness ==
    \E p \in swing_log :
        /\ InContactOf(p, sight_log) = {}
        /\ player_movement[p].raw_dir /= ZERO
        /\ IsSome(player_swinging[p])
        /\ Get(player_swinging[p]).movement_dir /= player_aim[p]
        /\ player_swing[p].status = Cooldown
        /\ ball_hit_evts = <<>>

\* the place of system s in the order run so far
PlaceOf(s) == CHOOSE i \in DOMAIN ran : ran[i] = s

\* a and b have both run in this tick, a before b
RanBefore(a, b) == a \in Ran /\ b \in Ran /\ PlaceOf(a) < PlaceOf(b)

InsertsFor(p) ==
    IF p \notin swing_log' THEN 0
    ELSE IF HitsBy(p) = {} THEN 1
    ELSE Cardinality(HitsBy(p))

\* a PlayerSwinging comes to a player only in a resolver pass that resolves
\* the swing of that player, who is not airborne
SwingingFromResolution ==
    \A p \in Players :
        (~IsSome(player_swinging[p]) /\ IsSome(player_swinging'[p])) =>
            (p \in swing_log' /\ p \notin inactive)

\* the dash and the initial jump velocity of a flight under way stay
SwingingKeptInFlight ==
    \A p \in Players :
        (IsSome(player_swinging[p]) /\ IsSome(player_swinging'[p])) =>
            LET old == Get(player_swinging[p])
                new == Get(player_swinging'[p])
            IN /\ new.movement_dir = old.movement_dir
               /\ new.movement_speed = old.movement_speed
               /\ new.initial_jump_vel = old.initial_jump_vel

\* a pass inserts PlayerSwinging at most once for a player
SwingingInsertedOnce == \A p \in Players : InsertsFor(p) <= 1

\* C23: a player carries at most one PlayerSwinging; it is created only by
\* the resolution of a swing of a player not already airborne, is inserted
\* at most once by that resolution, and its dash direction, dash speed and
\* initial jump velocity are not replaced before the landing.
C23_SwingingCreatedOnce ==
    [][SwingingFromResolution /\ SwingingInsertedOnce /\ SwingingKeptInFlight]_vars

\* a step is a pass of move_player, of aim, or of the resolver over a ball
ControlPass ==
    \/ budget'.moves < budget.moves
    \/ budget'.aims < budget.aims
    \/ sight_log' /= NoSights

\* C24: a pass of move_player, of aim or of handle_ball_swing_collisions
\* leaves a player carrying Inactive as it was, whatever the raw movement
\* and aim inputs: translation, easing accumulator, last heading, aim
\* direction and rotation, swing status and timer, animation and flight are
\* unchanged and the player stays Inactive; the translation of an Inactive
\* player changes only in a step of swing, which advances the flight.
C24_InactiveLeftAlone ==
    [][\A p \in inactive :
          /\ ControlPass =>
                 /\ player_t'[p] = player_t[p]
                 /\ player_movement'[p] = player_movement[p]
                 /\ player_aim'[p] = player_aim[p]
                 /\ aim_t'[p] = aim_t[p]
                 /\ player_swing'[p] = player_swing[p]
                 /\ player_anim'[p] = player_anim[p]
                 /\ player_swinging'[p] = player_swinging[p]
                 /\ p \in inactive'
          /\ player_t'[p] /= player_t[p] =>
                 player_swinging'[p] /= player_swinging[p]]_vars

\* C24: a pass of the resolver has left alone an airborne player whose swing is
\* Active again, with a ball within the contact radius and raw movement or
\* aim input standing
C24_Witness ==
    \E p \in inactive :
        /\ player_swing[p].status.tag = "Active"
        /\ ~player_swing[p].timer.finished
        /\ InContactOf(p, sight_log) /= {}
        /\ ball_hit_evts = <<>>
        /\ player_movement[p].raw_dir /= ZERO \/ aim_raw_dir[p] /= ZERO

\* C25: in every reachable state, after movement passes, swing resolutions
\* and landings in any sequence, the easing accumulator of every player
\* lies within [0, time_to_max_speed], and so the eased fraction worked out
\* from it lies within [0, 1].
C25_EasingWithinWindow ==
    \A p \in Players :
        /\ 0 <= player_movement[p].easing_time
        /\ player_movement[p].easing_time <= time_to_max_speed
        /\ (player_movement[p].easing_time * 1000) \div time_to_max_speed
               \in 0..1000

\* ball slot b holds a ball whose status is Used
IsUsed(b) == IsSome(balls[b]) /\ Get(balls[b]).status = Used

\* the points both sides have
Points(sc) == sc.left + sc.right

\* C26: Used is absorbing and a ball is resolved at most once.  A ball that
\* is Used stays Used as long as it is there, through hits and bounce
\* notifications alike; a bounce notification of a Used ball awards no
\* point, spawns no ball and leaves the serving region; and a notification
\* resolves only a ball that is not Used, leaves it Used, awards at most one
\* point and spawns exactly one ball.
C26_UsedIsAbsorbing ==
    [][/\ \A b \in BallIds :
             IsUsed(b) =>
                 /\ IsSome(balls'[b]) => Get(balls'[b]).status = Used
                 /\ (bounce_log'.seen /\ bounce_log'.ball_e = b) =>
                        /\ ~bounce_log'.resolved
                        /\ score' = score
                        /\ serving_region' = serving_region
                        /\ SpawnedBalls = {}
       /\ bounce_log'.resolved =>
              /\ ~IsUsed(bounce_log'.ball_e)
              /\ Get(balls'[bounce_log'.ball_e]).status = Used
              /\ Points(score') <= Points(score) + 1
              /\ Cardinality(SpawnedBalls) = 1
       /\ (Points(score') /= Points(score) \/ SpawnedBalls /= {}) =>
              bounce_log'.resolved]_vars

\* C26: a pass of the resolver has hit a ball that was resolved before and is
\* still there: the hit is notified and the ball is still Used
C26_Witness ==
    \E i \in DOMAIN ball_hit_evts :
        /\ IsUsed(ball_hit_evts[i].ball_e)
        /\ \E b \in LiveBalls : ~IsUsed(b)

\* player p is in the flight of a swing
Airborne(p) == IsSome(player_swinging[p]) /\ p \in inactive

\* C27: with ticks going on, every player a swing resolution has sent
\* airborne lands: PlayerSwinging and Inactive are removed in the end, and
\* no player stays locked out for ever.
C27_SwingLands ==
    \A p \in Players : Airborne(p) ~> (~IsSome(player_swinging[p]) /\ p \notin inactive)

\* C27: a player is back on the ground, off its spawn place, after a flight of
\* the swing now on cooldown or idle again
C27_Witness ==
    \E p \in Players :
        /\ ~Airborne(p)
        /\ player_anim[p] = "Landing"
        /\ player_movement[p].easing_time = 1000
        /\ player_t[p] /= spawn_translation(p, "BottomLeft")
        /\ player_swing[p].status \in {Cooldown, Idle}

\* a step's pass notifies a hit of ball b by player p
HitIn(p, b) ==
    \E i \in DOMAIN ball_hit_evts' :
        ball_hit_evts'[i].player_id = p /\ ball_hit_evts'[i].ball_e = b

\* a hundred times the smaller of the distances from player p of ball b and
\* of its bounce indicator, as a step's pass is shown them
NearestOf(p, b) ==
    LET sight == Get(sight_log'[b])
    IN 100 * Min(Length(VSub(sight.pos, player_t[p])),
                 Length(VSub(sight.bounce_global, player_t[p])))

\* C28: a ball is hit only inside the swing window.  A pass that resolves
\* an Active swing whose timer has run out sends no hit notification of
\* that player, even with a ball within the contact radius, and resolves
\* the swing as a miss (Cooldown, the fallback flight), changing no ball if
\* no other swing is resolved; a pass that resolves a swing whose timer
\* still runs hits a ball with its bounce record exactly when the smaller
\* of the ball's and the bounce indicator's distance is strictly under
\* AIM_RING_RADIUS + 0.65 * BALL_SIZE, and changes no ball it does not hit.
C28_HitOnlyInWindow ==
    [][\A p \in swing_log' :
          IF player_swing[p].timer.finished
          THEN /\ HitsBy(p) = {}
               /\ player_swing'[p].status = Cooldown
               /\ IsSome(player_swinging'[p])
               /\ Get(player_swinging'[p]).movement_speed = FallbackSpeed
               /\ Get(player_swinging'[p]).initial_jump_vel = PLAYER_JUMP_VEL_BASE
               /\ swing_log' = {p} => balls' = balls
          ELSE \A b \in LiveBalls :
                  /\ HitIn(p, b) <=>
                         /\ Get(sight_log'[b]).bounce_found
                         /\ NearestOf(p, b) < 100 * AIM_RING_RADIUS + 65 * BALL_SIZE
                  /\ (swing_log' = {p} /\ ~HitIn(p, b)) => balls'[b] = balls[b]]_vars

\* C28: a swing has been resolved as a miss with a ball, bounce record and all,
\* within the contact radius: the window had closed
C28_Witness ==
    \E p \in swing_log :
        /\ \E b \in InContactOf(p, sight_log) : Get(sight_log[b]).bounce_found
        /\ ball_hit_evts = <<>>
        /\ player_swing[p].status = Cooldown
        /\ IsSome(player_swinging[p])

====
